---- MODULE Spec2Model ----
(***************************************************************************)
(* Forward-chaining rule engine of heartdesease.py: InferenceRule,         *)
(* check_condition, HeartDiseaseEngine (__init__, run), the knowledge base *)
(* heart_disease_rules and the graph exporter build_graph_dot.             *)
(***************************************************************************)
EXTENDS Integers, Sequences, FiniteSets, TLC

VARIABLES
    rules,            \* the caller's rule list, as passed to __init__ and build_graph_dot
    constructed,      \* TRUE once HeartDiseaseEngine.__init__ has run
    self_rules,       \* self.rules of the engine object
    ncalls,           \* how many times the caller invokes run on the engine
    initial_facts,    \* per invocation: the caller's initial_facts dict
    facts,            \* per invocation: the local dict facts
    triggered_rules,  \* per invocation: the local list triggered_rules
    new_fact_added,   \* per invocation: the local flag new_fact_added
    pc,               \* per invocation: "idle", "while", "for", "done", "raised"
    idx,              \* per invocation: position of the for loop in self.rules
    passes,           \* per invocation: number of times the while body was entered
    graph             \* the DOT statements last produced by build_graph_dot

vars == <<rules, constructed, self_rules, ncalls, initial_facts, facts,
          triggered_rules, new_fact_added, pc, idx, passes, graph>>

runvars == <<facts, triggered_rules, new_fact_added, pc, idx, passes>>

----------------------------------------------------------------------------
(* Python values.  A fact value is an int or a str; None is what dict.get   *)
(* returns for a missing key.  Values are tagged so that values of          *)
(* different types can be compared the way Python compares them.            *)

IntV(n) == <<"int", n>>
StrV(s) == <<"str", s>>
None == <<"none", 0>>

IsInt(v) == v[1] = "int"

\* Python ==: values of different types are unequal, never an error.
PyEq(a, b) == a[1] = b[1] /\ a[2] = b[2]

\* Python dict: a function whose DOMAIN is the set of keys present.
EmptyDict == [k \in {} |-> None]

DictGet(d, k) == IF k \in DOMAIN d THEN d[k] ELSE None

DictSet(d, k, v) == [x \in (DOMAIN d) \cup {k} |-> IF x = k THEN v ELSE d[x]]

\* list membership: x in lst
InList(x, lst) == \E i \in 1..Len(lst) : lst[i] = x

----------------------------------------------------------------------------
(* InferenceRule and check_condition                                       *)

InferenceRule(id, conds, concl, prio) ==
    [identifier |-> id, conditions |-> conds, conclusion |-> concl, priority |-> prio]

\* The keys of the ops table of check_condition.
SupportedOps == {"==", "!=", ">=", "<=", ">", "<"}

OrderingOps == {">=", "<=", ">", "<"}

\* Lines 21-22 left out: facts[key] raises KeyError for a key that is absent.
CheckConditionRaisesOnMissingKey(condition, fs) ==
    \/ condition[1] \notin DOMAIN fs
    \/ /\ condition[2] \in {">=", "<=", ">", "<"}
       /\ ~(fs[condition[1]][1] = "int" /\ condition[3][1] = "int")

\* fn(current_value, value) raises TypeError: an ordering comparison of a
\* str with an int.  Every comparison value of a condition is an int here.
CheckConditionRaises(condition, fs) ==
    LET key == condition[1]
        operator == condition[2]
        value == condition[3]
    IN  /\ key \in DOMAIN fs
        /\ operator \in OrderingOps
        /\ ~(IsInt(fs[key]) /\ IsInt(value))

\* current_value = facts.get(key) for lines 21-23: an absent key is compared
\* as None, which differs from every value.
CheckConditionAbsentAsNone(condition, fs) ==
    LET key == condition[1]
        operator == condition[2]
        value == condition[3]
        current_value == DictGet(fs, key)
    IN  CASE operator = "==" -> PyEq(current_value, value)
          [] operator = "!=" -> ~PyEq(current_value, value)
          [] operator = ">=" -> key \in DOMAIN fs /\ current_value[2] >= value[2]
          [] operator = "<=" -> key \in DOMAIN fs /\ current_value[2] <= value[2]
          [] operator = ">"  -> key \in DOMAIN fs /\ current_value[2] > value[2]
          [] operator = "<"  -> key \in DOMAIN fs /\ current_value[2] < value[2]
          [] OTHER -> FALSE

\* The value check_condition returns when it does not raise.
CheckCondition(condition, fs) ==
    LET key == condition[1]
        operator == condition[2]
        value == condition[3]
    IN  IF key \notin DOMAIN fs THEN FALSE
        ELSE LET current_value == fs[key]
             IN  CASE operator = "==" -> PyEq(current_value, value)
                   [] operator = "!=" -> ~PyEq(current_value, value)
                   [] operator = ">=" -> current_value[2] >= value[2]
                   [] operator = "<=" -> current_value[2] <= value[2]
                   [] operator = ">"  -> current_value[2] > value[2]
                   [] operator = "<"  -> current_value[2] < value[2]
                   [] OTHER -> FALSE

\* all(check_condition(cond, facts) for cond in rule.conditions): the
\* generator stops at the first false condition; a condition before that
\* one may raise.  FirstStop is the position of the first condition that
\* is false or raises (Len + 1 when there is none).
RECURSIVE FirstStop(_, _, _)
FirstStop(conds, fs, i) ==
    IF i > Len(conds) THEN i
    ELSE IF CheckConditionRaises(conds[i], fs) THEN i
    ELSE IF ~CheckCondition(conds[i], fs) THEN i
    ELSE FirstStop(conds, fs, i + 1)

AllConditionsRaise(rule, fs) ==
    LET i == FirstStop(rule.conditions, fs, 1)
    IN  i <= Len(rule.conditions) /\ CheckConditionRaises(rule.conditions[i], fs)

AllConditions(rule, fs) == FirstStop(rule.conditions, fs, 1) > Len(rule.conditions)

----------------------------------------------------------------------------
(* HeartDiseaseEngine.__init__: sorted(rules, key=priority, reverse=True), *)
(* a stable sort: equal priorities keep their input order.                 *)

\* sorted(...)[::-1] on an ascending sort: r goes in front of the elements
\* of its own priority, so equal priorities come out in reversed input order.
RECURSIVE InsertBeforeEqual(_, _)
InsertBeforeEqual(s, r) ==
    IF s = <<>> THEN <<r>>
    ELSE IF Head(s).priority > r.priority
         THEN <<Head(s)>> \o InsertBeforeEqual(Tail(s), r)
         ELSE <<r>> \o s

\* reverse=True forgotten: ascending priorities.
RECURSIVE InsertAscending(_, _)
InsertAscending(s, r) ==
    IF s = <<>> THEN <<r>>
    ELSE IF Head(s).priority <= r.priority
         THEN <<Head(s)>> \o InsertAscending(Tail(s), r)
         ELSE <<r>> \o s

\* r inserted behind every element of the sorted list s whose priority is
\* at least r's.
RECURSIVE InsertByPriority(_, _)
InsertByPriority(s, r) ==
    IF s = <<>> THEN <<r>>
    ELSE IF Head(s).priority >= r.priority
         THEN <<Head(s)>> \o InsertByPriority(Tail(s), r)
         ELSE <<r>> \o s

RECURSIVE SortedFrom(_, _, _)
SortedFrom(rs, i, acc) ==
    IF i > Len(rs) THEN acc
    ELSE SortedFrom(rs, i + 1, InsertByPriority(acc, rs[i]))

SortedByPriority(rs) == SortedFrom(rs, 1, <<>>)
----------------------------------------------------------------------------
(* build_graph_dot: the DOT text as the sequence of its statements.        *)

TextLine(t)            == [kind |-> "text", name |-> t, label |-> "", color |-> "", to |-> ""]
FactNode(fk)           == [kind |-> "fact", name |-> fk, label |-> "", color |-> "#ffffe0", to |-> ""]
RuleNode(rn, lbl, col) == [kind |-> "rule", name |-> rn, label |-> lbl, color |-> col, to |-> ""]
Edge(from, target)     == [kind |-> "edge", name |-> from, label |-> "", color |-> "", to |-> target]

\* Every fact key of the rule sets below, in the order of Python's str comparison.
KeyAlphabet ==
    <<"a", "b", "c", "contra", "core_symptoms", "duration", "final",
      "positive_lab_count", "repeat", "risk_count", "rule_0", "ruled_out_other",
      "stage1", "stage2", "stage3", "stage4", "strong_risk", "symptom_count",
      "x", "y">>

\* sorted(fact_keys)
SortedKeys(S) == SelectSeq(KeyAlphabet, LAMBDA k : k \in S)

\* r.identifier.replace('"', '\\"'): the one identifier below that holds a
\* double quote gets a backslash before it.
EscapeQuotes(id) == IF id = "Q\"1" THEN "Q\\\"1" ELSE id

ConditionKeys(r) == {r.conditions[j][1] : j \in 1..Len(r.conditions)}

CollectFactKeys(rs) ==
    UNION {ConditionKeys(rs[i]) \cup {rs[i].conclusion[1]} : i \in 1..Len(rs)}

RuleStatements(r, i, fired_rules) ==
    LET rn == "rule_" \o ToString(i - 1)
        color == IF InList(r.identifier, fired_rules) THEN "#b3e6b3" ELSE "#e6f0ff"
    IN  <<RuleNode(rn, EscapeQuotes(r.identifier), color)>>
        \o [j \in 1..Len(r.conditions) |-> Edge(r.conditions[j][1], rn)]
        \o <<Edge(rn, r.conclusion[1])>>

RECURSIVE AllRuleStatements(_, _, _)
AllRuleStatements(rs, i, fired_rules) ==
    IF i > Len(rs) THEN <<>>
    ELSE RuleStatements(rs[i], i, fired_rules) \o AllRuleStatements(rs, i + 1, fired_rules)

BuildGraphDot(rs, fired_rules) ==
    LET keys == SortedKeys(CollectFactKeys(rs))
    IN  <<TextLine("digraph G {"), TextLine("rankdir=LR;"), TextLine("node [shape=box, style=\"rounded,filled\", fillcolor=\"#ffffff\"];")>>
        \o [k \in 1..Len(keys) |-> FactNode(keys[k])]
        \o AllRuleStatements(rs, 1, fired_rules)
        \o <<TextLine("}")>>

----------------------------------------------------------------------------
(* The caller and HeartDiseaseEngine.run                                   *)

Runs == {1, 2}

NoGraph == <<>>

\* st.graphviz_chart(build_graph_dot(rules_for_graph)): rendered before the engine exists.
RenderGraph ==
    /\ ~constructed
    /\ graph = NoGraph
    /\ graph' = BuildGraphDot(rules, <<>>)
    /\ UNCHANGED <<rules, constructed, self_rules, ncalls, initial_facts, runvars>>

\* engine = HeartDiseaseEngine(rules)
EngineInit ==
    /\ ~constructed
    /\ graph # NoGraph
    /\ constructed' = TRUE
    /\ self_rules' = SortedByPriority(rules)
    /\ UNCHANGED <<rules, ncalls, initial_facts, runvars, graph>>

\* The list kept on the engine, not made anew: the invocation r starts
\* with what the invocation before it recorded.
LeftoverTriggered(r) == IF r > 1 THEN triggered_rules[r - 1] ELSE <<>>

\* triggered_rules = []: a new list for the invocation r
FreshTriggered(r) == <<>>

\* engine.run(initial_facts): lines 48-50.  Calls are made one after the other.
RunCall(r) ==
    /\ constructed
    /\ r <= ncalls
    /\ pc[r] = "idle"
    /\ \A q \in Runs : q < r => pc[q] \in {"done", "raised"}
    /\ facts' = [facts EXCEPT ![r] = initial_facts[r]]
    /\ triggered_rules' = [triggered_rules EXCEPT ![r] = FreshTriggered(r)]
    /\ new_fact_added' = [new_fact_added EXCEPT ![r] = TRUE]
    /\ pc' = [pc EXCEPT ![r] = "while"]
    /\ UNCHANGED <<rules, constructed, self_rules, ncalls, initial_facts, idx, passes, graph>>

\* while new_fact_added: new_fact_added = False; the for loop starts.
WhileEnter(r) ==
    /\ pc[r] = "while"
    /\ new_fact_added[r]
    /\ new_fact_added' = [new_fact_added EXCEPT ![r] = FALSE]
    /\ passes' = [passes EXCEPT ![r] = @ + 1]
    /\ idx' = [idx EXCEPT ![r] = 1]
    /\ pc' = [pc EXCEPT ![r] = IF Len(self_rules) = 0 THEN "while" ELSE "for"]
    /\ UNCHANGED <<rules, constructed, self_rules, ncalls, initial_facts, facts,
                   triggered_rules, graph>>

\* Line 55 left out: a rule is considered again after it fired.
AlreadyTriggeredNever(rule, fired) == FALSE

\* if rule.identifier in triggered_rules: continue
AlreadyTriggered(rule, fired) == InList(rule.identifier, fired)

\* Line 59 left out: a conclusion is written whether or not it changes the store.
ConclusionDiffersAlways(rule, fs) == TRUE

\* == written for != in line 59.
ConclusionSame(rule, fs) == PyEq(DictGet(fs, rule.conclusion[1]), rule.conclusion[2])

\* facts.get(fact_key) != fact_value
ConclusionDiffers(rule, fs) == ~PyEq(DictGet(fs, rule.conclusion[1]), rule.conclusion[2])

\* facts = initial_facts, without dict(): the working store is the caller's dict.
CallersDictAliased(initial, working) == working

\* facts = dict(initial_facts) made a copy: what the caller's dict holds after
\* the working store has been written to.
CallersDict(initial, working) == initial

\* One iteration of for rule in self.rules (lines 54-62).
ForRule(r) ==
    /\ pc[r] = "for"
    /\ LET rule == self_rules[idx[r]]
           fact_key == rule.conclusion[1]
           fact_value == rule.conclusion[2]
           skip == AlreadyTriggered(rule, triggered_rules[r])
           raises == ~skip /\ AllConditionsRaise(rule, facts[r])
           fires == /\ ~skip
                    /\ ~raises
                    /\ AllConditions(rule, facts[r])
                    /\ ConclusionDiffers(rule, facts[r])
           last == idx[r] = Len(self_rules)
       IN  /\ facts' = [facts EXCEPT ![r] = IF fires THEN DictSet(@, fact_key, fact_value) ELSE @]
           /\ initial_facts' = [initial_facts EXCEPT ![r] = CallersDict(@, facts'[r])]
           /\ triggered_rules' = [triggered_rules EXCEPT
                                    ![r] = IF fires THEN Append(@, rule.identifier) ELSE @]
           /\ new_fact_added' = [new_fact_added EXCEPT ![r] = IF fires THEN TRUE ELSE @]
           /\ pc' = [pc EXCEPT ![r] = IF raises THEN "raised" ELSE IF last THEN "while" ELSE "for"]
           /\ idx' = [idx EXCEPT ![r] = IF raises \/ last THEN @ ELSE @ + 1]
    /\ UNCHANGED <<rules, constructed, self_rules, ncalls, passes, graph>>

\* The while test fails: return facts, triggered_rules.
Return(r) ==
    /\ pc[r] = "while"
    /\ ~new_fact_added[r]
    /\ pc' = [pc EXCEPT ![r] = "done"]
    /\ UNCHANGED <<rules, constructed, self_rules, ncalls, initial_facts, facts,
                   triggered_rules, new_fact_added, idx, passes, graph>>

\* st.graphviz_chart(build_graph_dot(rules, fired_rules)) after the last run returned.
RenderTrace ==
    /\ pc[ncalls] = "done"
    /\ graph = BuildGraphDot(rules, <<>>)
    /\ graph' = BuildGraphDot(rules, triggered_rules[ncalls])
    /\ UNCHANGED <<rules, constructed, self_rules, ncalls, initial_facts, runvars>>

Next ==
    \/ RenderGraph
    \/ EngineInit
    \/ \E r \in Runs : RunCall(r) \/ WhileEnter(r) \/ ForRule(r) \/ Return(r)
    \/ RenderTrace

\* The state before the caller's first statement, for the rule list rs, n
\* calls of run and the caller's dicts fs.
InitWith(rs, n, fs) ==
    /\ rules = rs
    /\ constructed = FALSE
    /\ self_rules = <<>>
    /\ ncalls = n
    /\ initial_facts = fs
    /\ facts = [r \in Runs |-> EmptyDict]
    /\ triggered_rules = [r \in Runs |-> <<>>]
    /\ new_fact_added = [r \in Runs |-> FALSE]
    /\ pc = [r \in Runs |-> "idle"]
    /\ idx = [r \in Runs |-> 0]
    /\ passes = [r \in Runs |-> 0]
    /\ graph = NoGraph
----------------------------------------------------------------------------
(* Rule lists and initial facts the engine is run on.                      *)

MaxRules == 2

\* Every dict over the keys K with values in V.
DictsOver(K, V) == UNION {[D -> V] : D \in SUBSET K}

\* Every list of at most n elements of S.
ListsUpTo(S, n) == UNION {[1..m -> S] : m \in 0..n}

\* Identifiers are only compared for equality (line 55), so one list stands
\* for every list with the same pattern of equal identifiers: the rule at
\* position k repeats an earlier identifier or takes the next unused name.
IdName(k) == "R" \o ToString(k)

IdLists(n) ==
    {s \in [1..n -> {IdName(k) : k \in 1..n}] :
        \A k \in 1..n :
            LET before == {s[j] : j \in 1..(k - 1)}
            IN  s[k] \in before \cup {IdName(Cardinality(before) + 1)}}

GenConditions ==
    { <<<<"a", "==", IntV(1)>>>>,
      <<<<"b", "==", IntV(1)>>>> }

GenConclusions == {<<"b", IntV(1)>>, <<"b", IntV(0)>>}

GenPriorities == {1, 2}

\* A rule without its identifier.
GenBodies ==
    {InferenceRule("", cs, cl, p) :
        cs \in GenConditions, cl \in GenConclusions, p \in GenPriorities}

GenRuleLists ==
    UNION {{[k \in 1..n |-> [bs[k] EXCEPT !.identifier = ids[k]]] :
                bs \in [1..n -> GenBodies], ids \in IdLists(n)} : n \in 0..MaxRules}

GenFacts == DictsOver({"a", "b"}, {IntV(0), IntV(1)})

\* Scenario A of the engine's documentation; single rules that meet every
\* operator, an unsupported operator, a str fact, an empty condition list,
\* a fact key that reads like a rule node's name and an identifier holding
\* a double quote; and two rules that share no fact key.
ScenarioR1 == InferenceRule("R1", <<<<"a", "==", IntV(1)>>>>, <<"b", IntV(1)>>, 2)
ScenarioR2 == InferenceRule("R2", <<<<"b", "==", IntV(1)>>>>, <<"c", IntV(1)>>, 1)
ScenarioA == <<ScenarioR1, ScenarioR2>>

UnsupportedOp == "=~"

\* priority is left at its default of the dataclass, 0
OneConditionRule(op) == InferenceRule("RC", <<<<"x", op, IntV(1)>>>>, <<"y", IntV(1)>>, 0)

TwoConditionRule(op) ==
    InferenceRule("Q\"1", <<<<"x", ">=", IntV(1)>>, <<"rule_0", op, IntV(1)>>>>,
                  <<"x", IntV(0)>>, 0)

Unconditional == InferenceRule("R0", <<>>, <<"y", IntV(1)>>, 0)

\* R1: a == 1 -> b = 1 with priority 1 before R2: b == 1 -> c = 1 with priority 2.
ChainLowFirst ==
    << InferenceRule("R1", <<<<"a", "==", IntV(1)>>>>, <<"b", IntV(1)>>, 1),
       InferenceRule("R2", <<<<"b", "==", IntV(1)>>>>, <<"c", IntV(1)>>, 2) >>

ExampleRuleLists ==
    {ScenarioA, <<ScenarioR2, ScenarioR1>>, <<Unconditional>>}
    \cup {<<OneConditionRule(op)>> : op \in SupportedOps \cup {UnsupportedOp}}
    \cup {<<TwoConditionRule(op)>> : op \in {"<=", UnsupportedOp}}
    \cup {<<OneConditionRule("==") , ScenarioR1>>, <<ScenarioR1, OneConditionRule("==")>>}
    \cup {ChainLowFirst}

ExampleValues == {IntV(0), IntV(1), IntV(2), StrV("t")}

----------------------------------------------------------------------------
(* heart_disease_rules and the facts run_streamlit_app builds from its form *)

C(k, op, n) == <<k, op, IntV(n)>>

FinalT1 == StrV("Confirmed Heart Disease. Start ACE inhibitors + lifestyle management.")
FinalT2 == StrV("Confirmed Heart Disease. ACE inhibitors contraindicated, use alternative therapy.")
FinalPlan3 == StrV("Heart disease likely. Repeat tests and begin lifestyle modifications.")
FinalPlan2 == StrV("High risk of heart disease. Order ECG, echocardiography, and labs.")
FinalPlan1 == StrV("Symptoms suggest screening. Advise ECG and lifestyle evaluation.")
FinalPlan0 == StrV("Low suspicion. Monitor and reassess if symptoms increase.")

HeartDiseaseRules ==
    << InferenceRule("S1: core symptoms => suspect",
                     <<C("core_symptoms", "==", 1)>>, <<"stage1", IntV(1)>>, 10),
       InferenceRule("S2: multiple symptoms >=3",
                     <<C("symptom_count", ">=", 3)>>, <<"stage1", IntV(1)>>, 9),
       InferenceRule("R1: high risk factors present",
                     <<C("stage1", "==", 1), C("risk_count", ">=", 2), C("strong_risk", "==", 1)>>,
                     <<"stage2", IntV(1)>>, 8),
       InferenceRule("L1: positive tests + duration",
                     <<C("stage2", "==", 1), C("duration", "==", 1), C("positive_lab_count", ">=", 1)>>,
                     <<"stage3", IntV(1)>>, 7),
       InferenceRule("C1: repeat positive + ruled out other",
                     <<C("stage3", "==", 1), C("repeat", "==", 1), C("ruled_out_other", "==", 1)>>,
                     <<"stage4", IntV(1)>>, 6),
       InferenceRule("T1: confirmed + no contraindication",
                     <<C("stage4", "==", 1), C("contra", "==", 0)>>, <<"final", FinalT1>>, 5),
       InferenceRule("T2: confirmed + contraindication",
                     <<C("stage4", "==", 1), C("contra", "==", 1)>>, <<"final", FinalT2>>, 5),
       InferenceRule("Plan-Stage3: likely but not confirmed",
                     <<C("stage3", "==", 1), C("stage4", "!=", 1)>>, <<"final", FinalPlan3>>, 4),
       InferenceRule("Plan-Stage2: high risk but labs inconclusive",
                     <<C("stage2", "==", 1), C("stage3", "!=", 1)>>, <<"final", FinalPlan2>>, 3),
       InferenceRule("Plan-Stage1: symptoms only",
                     <<C("stage1", "==", 1), C("stage2", "!=", 1)>>, <<"final", FinalPlan1>>, 2),
       InferenceRule("Plan-0: low suspicion",
                     <<C("stage1", "!=", 1)>>, <<"final", FinalPlan0>>, 1) >>

\* The largest count the form's multiselect and sliders are driven to.
MaxCount == 3

FlagKeys == {"core_symptoms", "strong_risk", "duration", "repeat", "ruled_out_other", "contra"}

CountKeys == {"symptom_count", "risk_count", "positive_lab_count"}

\* facts = {...} of run_streamlit_app: the six flags as int(bool), the three counts.
FormFacts ==
    {[k \in FlagKeys \cup CountKeys |-> IntV(IF k \in FlagKeys THEN fl[k] ELSE ct[k])] :
        fl \in [FlagKeys -> {0, 1}], ct \in [CountKeys -> 0..MaxCount]}

InitGen ==
    \E rs \in GenRuleLists, f \in GenFacts :
        InitWith(rs, 1, [r \in Runs |-> IF r = 1 THEN f ELSE EmptyDict])

InitExamples ==
    \E rs \in ExampleRuleLists :
        \E f \in DictsOver(CollectFactKeys(rs), ExampleValues) :
            InitWith(rs, 1, [r \in Runs |-> IF r = 1 THEN f ELSE EmptyDict])

Init == InitGen \/ InitExamples

Spec == Init /\ [][Next]_vars

\* The application: RULES and the form's facts.
InitKB ==
    \E f \in FormFacts :
        InitWith(HeartDiseaseRules, 1, [r \in Runs |-> IF r = 1 THEN f ELSE EmptyDict])

SpecKB == InitKB /\ [][Next]_vars

\* run is called twice on the same engine with equal initial facts.
InitRerun ==
    \E rs \in GenRuleLists \cup ExampleRuleLists :
        \E f \in IF rs \in GenRuleLists THEN GenFacts
                  ELSE DictsOver(CollectFactKeys(rs), ExampleValues) :
            InitWith(rs, 2, [r \in Runs |-> f])

SpecRerun == InitRerun /\ [][Next]_vars

\* The engine keeps running: run is a sequential loop nobody suspends.
FairSpec == Spec /\ WF_vars(Next)

----------------------------------------------------------------------------
(* Properties                                                              *)

Finished(r) == pc[r] \in {"done", "raised"}

Positions(lst, x) == {i \in 1..Len(lst) : lst[i] = x}

\* The position of the identifier id in the fired list (0 when it is not in it).
FiredAt(fired, id) == IF InList(id, fired) THEN CHOOSE i \in Positions(fired, id) : TRUE ELSE 0

UniqueIdentifier(i) ==
    \A j \in 1..Len(self_rules) : j # i => self_rules[j].identifier # self_rules[i].identifier

\* C1: for a rule set of N rules, run enters the while body at most N + 1
\* times, and every invocation ends (it returns, or a comparison raises).
C1_TerminatesWithinBound ==
    /\ [](\A r \in Runs : passes[r] <= Len(self_rules) + 1)
    /\ <>(\A r \in Runs : r <= ncalls => Finished(r))

\* A run over two rules or more that needed all N + 1 passes.
C1_Witness ==
    \E r \in Runs :
        pc[r] = "done" /\ Len(self_rules) >= 2 /\ passes[r] = Len(self_rules) + 1

\* C2: at every moment of a run no identifier occurs twice in triggered_rules.
C2_FiresAtMostOnce ==
    \A r \in Runs :
        \A i, j \in 1..Len(triggered_rules[r]) :
            i # j => triggered_rules[r][i] # triggered_rules[r][j]

\* A run has returned, and a rule that fired (the only one of its identifier)
\* has all its conditions true and a conclusion that differs from the store.
C2_Witness ==
    \E r \in Runs :
        /\ pc[r] = "done"
        /\ \E i \in 1..Len(self_rules) :
              /\ UniqueIdentifier(i)
              /\ InList(self_rules[i].identifier, triggered_rules[r])
              /\ AllConditions(self_rules[i], facts[r])
              /\ ~PyEq(DictGet(facts[r], self_rules[i].conclusion[1]), self_rules[i].conclusion[2])

\* The initial facts of run r already map rule i's conclusion key to its value.
ConcludedInitially(r, i) ==
    LET concl == self_rules[i].conclusion
    IN  concl[1] \in DOMAIN initial_facts[r] /\ PyEq(initial_facts[r][concl[1]], concl[2])

\* C3 as stated: a rule (the only one of its identifier) whose conclusion is
\* already in the initial facts never has its identifier in triggered_rules,
\* whatever the other rules do.
C3_AsStated ==
    \A r \in Runs :
        pc[r] # "idle" =>
            \A i \in 1..Len(self_rules) :
                (ConcludedInitially(r, i) /\ UniqueIdentifier(i))
                => ~InList(self_rules[i].identifier, triggered_rules[r])

\* C3 amended: a rule (the only one of its identifier) whose conclusion is
\* already in the initial facts fires only after another rule has fired
\* that concludes the same key with a different value.
C3_NoOpSuppression ==
    \A r \in Runs :
        pc[r] # "idle" =>
            \A i \in 1..Len(self_rules) :
                (/\ ConcludedInitially(r, i)
                 /\ UniqueIdentifier(i)
                 /\ InList(self_rules[i].identifier, triggered_rules[r]))
                => \E j \in 1..Len(self_rules) :
                      /\ j # i
                      /\ self_rules[j].conclusion[1] = self_rules[i].conclusion[1]
                      /\ ~PyEq(self_rules[j].conclusion[2], self_rules[i].conclusion[2])
                      /\ InList(self_rules[j].identifier, triggered_rules[r])
                      /\ FiredAt(triggered_rules[r], self_rules[j].identifier)
                           < FiredAt(triggered_rules[r], self_rules[i].identifier)

\* A run has returned without firing a rule whose conditions hold on the
\* initial facts and whose conclusion the initial facts already hold.
C3_Witness ==
    \E r \in Runs :
        /\ pc[r] = "done"
        /\ \E i \in 1..Len(self_rules) :
              /\ ConcludedInitially(r, i)
              /\ AllConditions(self_rules[i], initial_facts[r])
              /\ ~InList(self_rules[i].identifier, triggered_rules[r])

\* C4 as stated: with RULES and the nine facts of the form, the facts run
\* returns hold the key final.
C4_AsStated ==
    \A r \in Runs : pc[r] = "done" => "final" \in DOMAIN facts[r]

RuleKeys(rule) == ConditionKeys(rule) \cup {rule.conclusion[1]}

\* rules[i] and rules[j] share no fact key, both are eligible on the initial
\* facts of run r, and no other rule of the list concludes one of their keys
\* or bears one of their identifiers.
UnrelatedEligiblePair(r, i, j) ==
    /\ RuleKeys(rules[i]) \cap RuleKeys(rules[j]) = {}
    /\ rules[i].identifier # rules[j].identifier
    /\ \A k \in {i, j} :
          /\ AllConditions(rules[k], initial_facts[r])
          /\ ~PyEq(DictGet(initial_facts[r], rules[k].conclusion[1]), rules[k].conclusion[2])
    /\ \A m \in (1..Len(rules)) \ {i, j} :
          /\ rules[m].conclusion[1] \notin RuleKeys(rules[i]) \cup RuleKeys(rules[j])
          /\ rules[m].identifier \notin {rules[i].identifier, rules[j].identifier}

\* C5: of two unrelated rules of different priorities, both eligible on the
\* initial facts, both fire and the one of higher priority is recorded
\* first, at whichever positions of the caller's list the two stand.
C5_PriorityOrder ==
    \A r \in Runs :
        pc[r] = "done" =>
            \A i, j \in 1..Len(rules) :
                (rules[i].priority > rules[j].priority /\ UnrelatedEligiblePair(r, i, j))
                => /\ InList(rules[i].identifier, triggered_rules[r])
                   /\ InList(rules[j].identifier, triggered_rules[r])
                   /\ FiredAt(triggered_rules[r], rules[i].identifier)
                        < FiredAt(triggered_rules[r], rules[j].identifier)

\* Such a pair, given to the constructor with the rule of lower priority first.
C5_Witness ==
    \E r \in Runs :
        /\ pc[r] = "done"
        /\ \E i, j \in 1..Len(rules) :
              j < i /\ rules[i].priority > rules[j].priority /\ UnrelatedEligiblePair(r, i, j)

Bijections(n) == {p \in [1..n -> 1..n] : \A a, b \in 1..n : a # b => p[a] # p[b]}

\* out lists the elements of inp by descending priority, those of equal
\* priority in their order in inp.
StableDescending(inp, out) ==
    /\ Len(out) = Len(inp)
    /\ \E p \in Bijections(Len(inp)) :
          /\ \A k \in 1..Len(inp) : out[k] = inp[p[k]]
          /\ \A a, b \in 1..Len(inp) :
                a < b => \/ inp[p[a]].priority > inp[p[b]].priority
                         \/ inp[p[a]].priority = inp[p[b]].priority /\ p[a] < p[b]

\* C6: self.rules is the stable descending sort of the list given to
\* __init__, and no step changes the caller's list.
C6_StableSort ==
    /\ [](constructed => StableDescending(rules, self_rules))
    /\ [][rules' = rules]_vars

\* An engine built from a list that holds two different rules of one priority.
C6_Witness ==
    /\ constructed
    /\ \E i, j \in 1..Len(rules) :
          i < j /\ rules[i].priority = rules[j].priority /\ rules[i] # rules[j]

\* C7: two invocations on one engine with equal initial facts end alike,
\* with equal facts and equal triggered_rules.
C7_Determinism ==
    (Finished(1) /\ Finished(2) /\ initial_facts[1] = initial_facts[2])
    => /\ pc[1] = pc[2]
       /\ facts[1] = facts[2]
       /\ triggered_rules[1] = triggered_rules[2]

\* The second of two invocations with equal initial facts has returned, and
\* rules fired in it.
C7_Witness ==
    /\ pc[1] = "done" /\ pc[2] = "done"
    /\ initial_facts[1] = initial_facts[2]
    /\ Len(triggered_rules[2]) >= 2

IsScenarioA == rules \in {ScenarioA, <<ScenarioR2, ScenarioR1>>}

\* C8: on the rules R1 (a==1 -> b=1, priority 2) and R2 (b==1 -> c=1,
\* priority 1), run on {a:1} returns {a:1, b:1, c:1} and [R1, R2], and run
\* on {b:1} returns {b:1, c:1} and [R2].
C8_ScenarioA ==
    \A r \in Runs :
        (IsScenarioA /\ Finished(r))
        => /\ initial_facts[r] = ("a" :> IntV(1))
                => /\ pc[r] = "done"
                   /\ facts[r] = ("a" :> IntV(1) @@ "b" :> IntV(1) @@ "c" :> IntV(1))
                   /\ triggered_rules[r] = <<"R1", "R2">>
           /\ initial_facts[r] = ("b" :> IntV(1))
                => /\ pc[r] = "done"
                   /\ facts[r] = ("b" :> IntV(1) @@ "c" :> IntV(1))
                   /\ triggered_rules[r] = <<"R2">>

\* The run of Scenario A on {a:1} has ended.
C8_Witness ==
    \E r \in Runs :
        IsScenarioA /\ Finished(r) /\ initial_facts[r] = ("a" :> IntV(1))

\* The key of the condition is absent from fs, or its operator is none of the six.
AbsentOrUnsupported(condition, fs) ==
    condition[1] \notin DOMAIN fs \/ condition[2] \notin {"==", "!=", ">=", "<=", ">", "<"}

IsScenarioC == rules = <<OneConditionRule("==")>>

\* C9: check_condition is False, and raises nothing, for a condition whose
\* key is absent or whose operator is not supported; no step fires a rule
\* that holds such a condition; and the run of the rule (x==1 -> y=1) on
\* no facts returns no facts and an empty fired list.
C9_AbsentOrUnsupported ==
    /\ [](\A r \in Runs : \A i \in 1..Len(self_rules) :
            \A j \in 1..Len(self_rules[i].conditions) :
                AbsentOrUnsupported(self_rules[i].conditions[j], facts[r])
                => /\ ~CheckCondition(self_rules[i].conditions[j], facts[r])
                   /\ ~CheckConditionRaises(self_rules[i].conditions[j], facts[r]))
    /\ [][\A r \in Runs :
            (/\ pc[r] = "for"
             /\ \E j \in 1..Len(self_rules[idx[r]].conditions) :
                   AbsentOrUnsupported(self_rules[idx[r]].conditions[j], facts[r]))
            => /\ facts'[r] = facts[r]
               /\ triggered_rules'[r] = triggered_rules[r]]_vars
    /\ [](\A r \in Runs :
            (IsScenarioC /\ initial_facts[r] = EmptyDict /\ pc[r] # "idle")
            => pc[r] # "raised" /\ facts[r] = EmptyDict /\ triggered_rules[r] = <<>>)
    /\ ((IsScenarioC /\ initial_facts[1] = EmptyDict) ~> (pc[1] = "done"))

\* A run has returned without firing a rule whose only condition has an
\* unsupported operator on a key that is present.
C9_Witness ==
    \E r \in Runs :
        /\ pc[r] = "done"
        /\ triggered_rules[r] = <<>>
        /\ \E i \in 1..Len(self_rules) :
              /\ Len(self_rules[i].conditions) = 1
              /\ self_rules[i].conditions[1][1] \in DOMAIN facts[r]
              /\ self_rules[i].conditions[1][2] \notin {"==", "!=", ">=", "<=", ">", "<"}

\* The statements of the graph of one kind, and the nodes they declare.
Statements(kind) == {k \in 1..Len(graph) : graph[k].kind = kind}

NodeNames(kind) == {graph[k].name : k \in Statements(kind)}

\* The fact keys of the caller's rule list.
KeysOfRules ==
    UNION {{rules[i].conditions[j][1] : j \in 1..Len(rules[i].conditions)}
           \cup {rules[i].conclusion[1]} : i \in 1..Len(rules)}

\* The rule node statements, in the order of the text: the i-th is rule i's.
RuleNodes == SelectSeq(graph, LAMBDA st : st.kind = "rule")

\* The rule nodes labelled with the identifier id.
NodesLabelled(id) == {graph[k].name : k \in {n \in Statements("rule") : graph[n].label = id}}

EdgeCount(from, target) ==
    Cardinality({k \in Statements("edge") : graph[k].name = from /\ graph[k].to = target})

\* The graph has one fact node for each fact key of the rules and no other,
\* one rule node for each rule, none of them a fact node, and for each rule
\* one edge into its node for each of its conditions and one edge out of it,
\* to its conclusion key.
GraphShape ==
    /\ NodeNames("fact") = KeysOfRules
    /\ Cardinality(Statements("fact")) = Cardinality(KeysOfRules)
    /\ Len(RuleNodes) = Len(rules)
    /\ Cardinality(NodeNames("rule")) = Len(rules)
    /\ NodeNames("rule") \cap NodeNames("fact") = {}
    /\ \A i \in 1..Len(rules) :
          /\ RuleNodes[i].label = EscapeQuotes(rules[i].identifier)
          /\ \A key \in KeysOfRules :
                /\ EdgeCount(key, RuleNodes[i].name)
                     = Cardinality({j \in 1..Len(rules[i].conditions) :
                                       rules[i].conditions[j][1] = key})
                /\ EdgeCount(RuleNodes[i].name, key)
                     = IF rules[i].conclusion[1] = key THEN 1 ELSE 0
    /\ Cardinality(Statements("edge"))
         = Cardinality(UNION {{<<i, j>> : j \in 0..Len(rules[i].conditions)} :
                                 i \in 1..Len(rules)})

\* C10 as stated: every graph build_graph_dot produces has that shape, and
\* the graph of Scenario A has the fact nodes a, b, c, two rule nodes and
\* the edges a -> R1, R1 -> b, b -> R2, R2 -> c.
C10_AsStated ==
    graph # NoGraph
    => /\ GraphShape
       /\ rules = ScenarioA
            => /\ NodeNames("fact") = {"a", "b", "c"}
               /\ Cardinality(NodeNames("rule")) = 2
               /\ \E n1 \in NodesLabelled("R1"), n2 \in NodesLabelled("R2") :
                     {<<graph[k].name, graph[k].to>> : k \in Statements("edge")}
                        = {<<"a", n1>>, <<n1, "b">>, <<"b", n2>>, <<n2, "c">>}

----------------------------------------------------------------------------
(* Two invocations of run on one engine, their steps interleaved           *)

\* engine.run(initial_facts), lines 48-50, entered while another invocation
\* of run on the same engine may be between any two of its steps.
RunCallConcurrent(r) ==
    /\ constructed
    /\ r <= ncalls
    /\ pc[r] = "idle"
    /\ facts' = [facts EXCEPT ![r] = initial_facts[r]]
    /\ triggered_rules' = [triggered_rules EXCEPT ![r] = FreshTriggered(r)]
    /\ new_fact_added' = [new_fact_added EXCEPT ![r] = TRUE]
    /\ pc' = [pc EXCEPT ![r] = "while"]
    /\ UNCHANGED <<rules, constructed, self_rules, ncalls, initial_facts, idx, passes, graph>>

NextConcurrent ==
    \/ RenderGraph
    \/ EngineInit
    \/ \E r \in Runs : RunCallConcurrent(r) \/ WhileEnter(r) \/ ForRule(r) \/ Return(r)
    \/ RenderTrace

\* Two rules that write different values under one key.
ConflictPair ==
    << InferenceRule("Hi", <<<<"a", "==", IntV(1)>>>>, <<"c", IntV(1)>>, 2),
       InferenceRule("Lo", <<<<"b", "==", IntV(1)>>>>, <<"c", IntV(0)>>, 1) >>

ConcurrentRuleLists == {ScenarioA, ChainLowFirst, ConflictPair, <<TwoConditionRule("<=")>>}

ConcurrentValues == {IntV(0), IntV(1)}

InitConcurrent ==
    \E rs \in ConcurrentRuleLists :
        \E f1, f2 \in DictsOver(CollectFactKeys(rs), ConcurrentValues) :
            InitWith(rs, 2, [r \in Runs |-> IF r = 1 THEN f1 ELSE f2])

SpecConcurrent == InitConcurrent /\ [][NextConcurrent]_vars

\* run executed alone, as a function of the engine's rules and the initial
\* facts: the state of its local variables after each for-iteration.
RunState(fs, fired, added, raised) ==
    [facts |-> fs, triggered_rules |-> fired, new_fact_added |-> added, raised |-> raised]

RECURSIVE ForFrom(_, _, _)
ForFrom(rs, i, st) ==
    IF i > Len(rs) \/ st.raised THEN st
    ELSE LET rule == rs[i]
             skip == AlreadyTriggered(rule, st.triggered_rules)
             raises == ~skip /\ AllConditionsRaise(rule, st.facts)
             fires == /\ ~skip
                      /\ ~raises
                      /\ AllConditions(rule, st.facts)
                      /\ ConclusionDiffers(rule, st.facts)
         IN  ForFrom(rs, i + 1,
                     IF raises THEN [st EXCEPT !.raised = TRUE]
                     ELSE IF fires
                          THEN RunState(DictSet(st.facts, rule.conclusion[1], rule.conclusion[2]),
                                        Append(st.triggered_rules, rule.identifier), TRUE, FALSE)
                          ELSE st)

RECURSIVE WhileFrom(_, _)
WhileFrom(rs, st) ==
    IF st.raised \/ ~st.new_fact_added THEN st
    ELSE WhileFrom(rs, ForFrom(rs, 1, [st EXCEPT !.new_fact_added = FALSE]))

RunAlone(rs, initial) == WhileFrom(rs, RunState(initial, <<>>, TRUE, FALSE))

\* The local variables of the invocation r.
Locals(r) == <<facts[r], triggered_rules[r], new_fact_added[r], pc[r], idx[r], passes[r]>>

\* C11: two invocations of run on one engine with independent initial facts
\* and arbitrarily interleaved steps each end as they end when executed alone
\* (same final facts, same fired list, same outcome); a step changes the
\* local variables of at most one invocation, and the engine's rule list is
\* never changed once constructed.
C11_Isolation ==
    /\ [](\A r \in Runs :
            Finished(r) =>
                LET alone == RunAlone(self_rules, initial_facts[r])
                IN  /\ facts[r] = alone.facts
                    /\ triggered_rules[r] = alone.triggered_rules
                    /\ (pc[r] = "raised") = alone.raised)
    /\ [][ /\ constructed => self_rules' = self_rules
           /\ \A r, q \in Runs :
                 (Locals(r)' # Locals(r) /\ Locals(q)' # Locals(q)) => r = q ]_vars

\* The second invocation has returned while the first, entered with other
\* initial facts, is inside its for loop; both have fired rules.
C11_Witness ==
    /\ pc[2] = "done" /\ pc[1] = "for"
    /\ initial_facts[1] # initial_facts[2]
    /\ Len(triggered_rules[2]) >= 2 /\ Len(triggered_rules[1]) >= 1
    /\ triggered_rules[1] # SubSeq(triggered_rules[2], 1, Len(triggered_rules[1]))

----------------------------------------------------------------------------
(* What run returns and what a step may change                             *)

\* Some condition of the rule is evaluated to False on the facts fs.
SomeConditionFalse(rule, fs) ==
    \E j \in 1..Len(rule.conditions) :
        /\ ~CheckConditionRaises(rule.conditions[j], fs)
        /\ ~CheckCondition(rule.conditions[j], fs)

\* C12: when run returns, every rule whose identifier is not in
\* triggered_rules has a condition that is false on the returned facts or a
\* conclusion value equal to what the returned facts hold under its
\* conclusion key: no such rule can still fire on the returned fact store.
C12_Quiescence ==
    \A r \in Runs :
        pc[r] = "done" =>
            \A i \in 1..Len(self_rules) :
                ~InList(self_rules[i].identifier, triggered_rules[r])
                => \/ SomeConditionFalse(self_rules[i], facts[r])
                   \/ /\ self_rules[i].conclusion[1] \in DOMAIN facts[r]
                      /\ PyEq(facts[r][self_rules[i].conclusion[1]], self_rules[i].conclusion[2])

\* A run that fired a rule has returned, leaving unfired a rule of another
\* identifier whose conditions all hold on the returned facts but whose
\* conclusion the returned facts already hold.
C12_Witness ==
    \E r \in Runs :
        /\ pc[r] = "done"
        /\ triggered_rules[r] # <<>>
        /\ \E j \in 1..Len(self_rules) :
              /\ ~InList(self_rules[j].identifier, triggered_rules[r])
              /\ self_rules[j].conditions # <<>>
              /\ ~SomeConditionFalse(self_rules[j], facts[r])
              /\ PyEq(DictGet(facts[r], self_rules[j].conclusion[1]), self_rules[j].conclusion[2])

\* Some rule whose identifier is in the fired list concludes the key k.
ConcludedByFired(k, fired) ==
    \E i \in 1..Len(self_rules) :
        self_rules[i].conclusion[1] = k /\ InList(self_rules[i].identifier, fired)

\* C13: run never changes the caller's initial_facts; the working fact store
\* changes only in a step that also appends a rule's identifier to
\* triggered_rules, and that step changes nothing but that rule's conclusion
\* key; so no key is ever removed, and every key that is not the conclusion
\* key of a fired rule holds exactly its initial value (and is absent if it
\* was absent initially).
C13_Frame ==
    /\ [][\A r \in Runs : initial_facts'[r] = initial_facts[r]]_vars
    /\ [][\A r \in Runs :
            (pc[r] # "idle" /\ facts'[r] # facts[r])
            => \E i \in 1..Len(self_rules) :
                  LET key == self_rules[i].conclusion[1]
                  IN  /\ triggered_rules'[r] = Append(triggered_rules[r], self_rules[i].identifier)
                      /\ DOMAIN facts'[r] = DOMAIN facts[r] \cup {key}
                      /\ \A k \in DOMAIN facts[r] \ {key} : facts'[r][k] = facts[r][k]]_vars
    /\ [](\A r \in Runs :
            pc[r] # "idle" =>
                /\ DOMAIN initial_facts[r] \subseteq DOMAIN facts[r]
                /\ \A k \in DOMAIN facts[r] :
                      ~ConcludedByFired(k, triggered_rules[r])
                      => k \in DOMAIN initial_facts[r] /\ facts[r][k] = initial_facts[r][k])

\* A run has returned after it overwrote one key of its initial facts, and
\* another key of the initial facts, which no fired rule concludes, is in
\* the returned facts with its initial value.
C13_Witness ==
    \E r \in Runs :
        /\ pc[r] = "done"
        /\ \E k1, k2 \in DOMAIN initial_facts[r] :
              /\ facts[r][k1] # initial_facts[r][k1]
              /\ ~ConcludedByFired(k2, triggered_rules[r])
              /\ facts[r][k2] = initial_facts[r][k2]

\* All conditions of the rule hold on fs and its conclusion value is not
\* what fs holds under its conclusion key.
CanFireOn(rule, fs) ==
    /\ \A j \in 1..Len(rule.conditions) :
          /\ ~CheckConditionRaises(rule.conditions[j], fs)
          /\ CheckCondition(rule.conditions[j], fs)
    /\ \/ rule.conclusion[1] \notin DOMAIN fs
       \/ ~PyEq(fs[rule.conclusion[1]], rule.conclusion[2])

\* C14: triggered_rules is the order of firing, not the order of the rule
\* list: an identifier is appended only in a step before which all conditions
\* of its rule hold on the fact store and its conclusion differs from it; so
\* when a fired rule (the only one of its identifier) has a condition on a
\* key absent from the initial facts, a rule concluding that key stands
\* earlier in triggered_rules, whatever its priority; and R1: a == 1 -> b = 1
\* (priority 1), R2: b == 1 -> c = 1 (priority 2) on {a: 1} returns [R1, R2].
C14_FiringOrder ==
    /\ [][\A r \in Runs :
            triggered_rules'[r] # triggered_rules[r]
            => \E i \in 1..Len(self_rules) :
                  /\ triggered_rules'[r] = Append(triggered_rules[r], self_rules[i].identifier)
                  /\ CanFireOn(self_rules[i], facts[r])]_vars
    /\ [](\A r \in Runs :
            \A i \in 1..Len(self_rules) :
                (UniqueIdentifier(i) /\ InList(self_rules[i].identifier, triggered_rules[r]))
                => \A k \in ConditionKeys(self_rules[i]) \ DOMAIN initial_facts[r] :
                      \E j \in 1..Len(self_rules) :
                          /\ self_rules[j].conclusion[1] = k
                          /\ InList(self_rules[j].identifier, triggered_rules[r])
                          /\ FiredAt(triggered_rules[r], self_rules[j].identifier)
                               < FiredAt(triggered_rules[r], self_rules[i].identifier))
    /\ [](\A r \in Runs :
            (pc[r] = "done" /\ rules = ChainLowFirst /\ initial_facts[r] = DictSet(EmptyDict, "a", IntV(1)))
            => triggered_rules[r] = <<"R1", "R2">>)

\* The run of the example has returned: R2, first in self.rules by its
\* priority, tests the key b that only R1's firing supplies.
C14_Witness ==
    \E r \in Runs :
        /\ pc[r] = "done"
        /\ rules = ChainLowFirst
        /\ self_rules[1].identifier = "R2"
        /\ initial_facts[r] = DictSet(EmptyDict, "a", IntV(1))
        /\ triggered_rules[r] = <<"R1", "R2">>

\* self.rules[hi] and self.rules[lo] conclude one key with different values,
\* hi with the higher priority; on the initial facts of run r the key is
\* absent and all conditions of both hold; no other rule concludes that key
\* or a key the two test, and no other rule bears one of their identifiers.
ConflictingPair(r, hi, lo) ==
    LET H == self_rules[hi]
        L == self_rules[lo]
    IN  /\ H.priority > L.priority
        /\ H.conclusion[1] = L.conclusion[1]
        /\ ~PyEq(H.conclusion[2], L.conclusion[2])
        /\ H.conclusion[1] \notin DOMAIN initial_facts[r]
        /\ \A rule \in {H, L} :
              \A c \in 1..Len(rule.conditions) :
                  /\ ~CheckConditionRaises(rule.conditions[c], initial_facts[r])
                  /\ CheckCondition(rule.conditions[c], initial_facts[r])
        /\ UniqueIdentifier(hi) /\ UniqueIdentifier(lo)
        /\ \A m \in (1..Len(self_rules)) \ {hi, lo} :
              self_rules[m].conclusion[1]
                 \notin {H.conclusion[1]} \cup ConditionKeys(H) \cup ConditionKeys(L)

\* C15: of such a pair both rules have fired when the first pass of the while
\* loop is over, the rule of higher priority first, and the facts run returns
\* hold the value of the rule of LOWER priority under the key: the last
\* writer wins.
C15_LastWriterWins ==
    \A r \in Runs :
        \A hi, lo \in 1..Len(self_rules) :
            ConflictingPair(r, hi, lo)
            => /\ (pc[r] = "while" /\ passes[r] = 1)
                  => /\ InList(self_rules[hi].identifier, triggered_rules[r])
                     /\ InList(self_rules[lo].identifier, triggered_rules[r])
                     /\ FiredAt(triggered_rules[r], self_rules[hi].identifier)
                          < FiredAt(triggered_rules[r], self_rules[lo].identifier)
               /\ pc[r] = "done"
                  => /\ self_rules[lo].conclusion[1] \in DOMAIN facts[r]
                     /\ PyEq(facts[r][self_rules[lo].conclusion[1]], self_rules[lo].conclusion[2])

\* A run over such a pair has returned, the rule of lower priority standing
\* first in the caller's list.
C15_Witness ==
    \E r \in Runs :
        /\ pc[r] = "done"
        /\ \E hi, lo \in 1..Len(self_rules) :
              /\ ConflictingPair(r, hi, lo)
              /\ self_rules[hi].conditions # <<>>
              /\ rules[1] = self_rules[lo]

----------------------------------------------------------------------------
(* The knowledge base on initial facts other than the form's               *)

StageKeys == {"stage1", "stage2", "stage3", "stage4"}

\* The count keys with the value their >= condition in RULES compares with.
CountThresholds ==
    {<<HeartDiseaseRules[i].conditions[j][1], HeartDiseaseRules[i].conditions[j][3][2]>> :
        <<i, j>> \in {p \in (1..Len(HeartDiseaseRules)) \X (1..3) :
                        /\ p[2] <= Len(HeartDiseaseRules[p[1]].conditions)
                        /\ HeartDiseaseRules[p[1]].conditions[p[2]][2] = ">="}}

Threshold(k) == (CHOOSE t \in CountThresholds : t[1] = k)[2]

\* Initial facts a caller of run may pass with RULES: no stage key; every
\* flag 0 or 1, contra possibly absent; every count just below or at its
\* threshold; final absent or already holding a text.
OpenFacts ==
    {[k \in (FlagKeys \ absent) \cup CountKeys \cup DOMAIN fin |->
            IF k \in FlagKeys THEN IntV(fl[k])
            ELSE IF k \in CountKeys THEN IntV(Threshold(k) - below[k])
            ELSE fin[k]] :
        fl \in [FlagKeys -> {0, 1}],
        absent \in {{}, {"contra"}},
        below \in [CountKeys -> {0, 1}],
        fin \in {EmptyDict} \cup [{"final"} -> {FinalT1, FinalPlan0}]}

InitKBOpen ==
    \E f \in OpenFacts :
        InitWith(HeartDiseaseRules, 1, [r \in Runs |-> IF r = 1 THEN f ELSE EmptyDict])

SpecKBOpen == InitKBOpen /\ [][Next]_vars

FallbackIdentifiers ==
    {"Plan-Stage3: likely but not confirmed", "Plan-Stage2: high risk but labs inconclusive",
     "Plan-Stage1: symptoms only", "Plan-0: low suspicion"}

\* No stage key holds anything but 1, and no fallback rule has fired.
NoFallbackFired(r) ==
    /\ \A k \in StageKeys \cap DOMAIN facts[r] : facts[r][k] = IntV(1)
    /\ \A i \in 1..Len(triggered_rules[r]) : triggered_rules[r][i] \notin FallbackIdentifiers

Stage4Derived(r) == "stage4" \in DOMAIN facts[r] /\ facts[r]["stage4"] = IntV(1)

StageSeq == <<"stage1", "stage2", "stage3", "stage4">>

HoldsOne(fs, k) == k \in DOMAIN fs /\ fs[k] = IntV(1)

====
